---- MODULE Spec2Model ----
(***************************************************************************)
(* A model of the QA agent's orchestration engine                          *)
(* (src/src/qa_agent/core/agent.py): one run of QAAgent.analyze_website,   *)
(* with its concurrent detector and analyzer phases, and the pure summary  *)
(* and scoring functions it applies when it assembles the report.          *)
(***************************************************************************)
EXTENDS Integers, Sequences, FiniteSets, TLC

(***************************************************************************)
(* Bounds of the model.                                                    *)
(***************************************************************************)
\* longest arbitrary issue list handed to the summary and scoring functions
MaxLen == 2
\* longest run of identical issues handed to the summary and scoring functions
MaxRun == 10
\* longest issue list a detector whose code is not in the sources returns
MaxOut == 1

(***************************************************************************)
(* Python dictionaries are functions whose domain is the set of keys.      *)
(***************************************************************************)
EmptyDict == [k \in {} |-> 0]

\* dict.get(key, default)
Get(d, k, default) == IF k \in DOMAIN d THEN d[k] ELSE default

\* d[key] = value
Put(d, k, v) == [x \in (DOMAIN d) \cup {k} |-> IF x = k THEN v ELSE d[x]]

\* a variant in which the earlier mapping wins
MergeKeepsDefaults(defaults, options) ==
  [x \in (DOMAIN defaults) \cup (DOMAIN options) |->
     IF x \in DOMAIN defaults THEN defaults[x] ELSE options[x]]

\* {**defaults, **options}: the later mapping wins
Merge(defaults, options) ==
  [x \in (DOMAIN defaults) \cup (DOMAIN options) |->
     IF x \in DOMAIN options THEN options[x] ELSE defaults[x]]

(***************************************************************************)
(* The data model: IssueType, IssueSeverity, QAIssue.                      *)
(***************************************************************************)
IssueType ==
  {"bug", "accessibility", "performance", "security", "user_experience",
   "visual_regression"}

IssueSeverity == {"low", "medium", "high", "critical"}

\* a QAIssue, by the fields the orchestrator reads
QAIssue(t, s, title) == [type |-> t, severity |-> s, title |-> title]

(***************************************************************************)
(* _create_summary: one pass over the issue list.                          *)
(***************************************************************************)
\* a variant that sets the per-type counter instead of incrementing it
SummaryStepAssigns(summary, issue) ==
  [total_issues |-> summary.total_issues,
   by_severity |->
     Put(summary.by_severity, issue.severity,
         Get(summary.by_severity, issue.severity, 0) + 1),
   by_type |-> Put(summary.by_type, issue.type, 1),
   critical_issues |->
     IF issue.severity = "critical"
       THEN Append(summary.critical_issues,
                   [title |-> issue.title, type |-> issue.type])
       ELSE summary.critical_issues]

\* a variant that puts each critical issue at the head of the critical list
SummaryStepPrepends(summary, issue) ==
  [total_issues |-> summary.total_issues,
   by_severity |->
     Put(summary.by_severity, issue.severity,
         Get(summary.by_severity, issue.severity, 0) + 1),
   by_type |->
     Put(summary.by_type, issue.type, Get(summary.by_type, issue.type, 0) + 1),
   critical_issues |->
     IF issue.severity = "critical"
       THEN <<[title |-> issue.title, type |-> issue.type]>>
            \o summary.critical_issues
       ELSE summary.critical_issues]

SummaryStep(summary, issue) ==
  [total_issues |-> summary.total_issues,
   by_severity |->
     Put(summary.by_severity, issue.severity,
         Get(summary.by_severity, issue.severity, 0) + 1),
   by_type |->
     Put(summary.by_type, issue.type, Get(summary.by_type, issue.type, 0) + 1),
   critical_issues |->
     IF issue.severity = "critical"
       THEN Append(summary.critical_issues,
                   [title |-> issue.title, type |-> issue.type])
       ELSE summary.critical_issues]

RECURSIVE SummaryLoop(_, _, _)
SummaryLoop(summary, issues, i) ==
  IF i > Len(issues) THEN summary
  ELSE SummaryLoop(SummaryStep(summary, issues[i]), issues, i + 1)

CreateSummary(issues) ==
  SummaryLoop([total_issues |-> Len(issues), by_severity |-> EmptyDict,
               by_type |-> EmptyDict, critical_issues |-> <<>>],
              issues, 1)

(***************************************************************************)
(* _calculate_metrics and the three per-category scores.                   *)
(***************************************************************************)
Max(a, b) == IF a >= b THEN a ELSE b

RECURSIVE SumSeq(_)
SumSeq(s) == IF s = <<>> THEN 0 ELSE Head(s) + SumSeq(Tail(s))

IsAccessibility(i) == i.type = "accessibility"
IsSecurity(i) == i.type = "security"
IsUX(i) == i.type = "user_experience"
IsCritical(i) == i.severity = "critical"
IsHigh(i) == i.severity = "high"

AccessibilityPenalty(issue) ==
  IF issue.severity = "critical" THEN 25
  ELSE IF issue.severity = "high" THEN 15
  ELSE IF issue.severity = "medium" THEN 5 ELSE 1

\* a variant that scores security issues with the accessibility penalties
SecurityPenaltyOfAccessibility(issue) == AccessibilityPenalty(issue)

SecurityPenalty(issue) ==
  IF issue.severity = "critical" THEN 40
  ELSE IF issue.severity = "high" THEN 25
  ELSE IF issue.severity = "medium" THEN 10 ELSE 2

UXPenalty(issue) ==
  IF issue.severity = "critical" THEN 20
  ELSE IF issue.severity = "high" THEN 12
  ELSE IF issue.severity = "medium" THEN 6 ELSE 2

CalculateAccessibilityScore(issues) ==
  LET accessibility_issues == SelectSeq(issues, IsAccessibility)
      penalty == SumSeq([k \in 1..Len(accessibility_issues) |->
                           AccessibilityPenalty(accessibility_issues[k])])
  IN IF accessibility_issues = <<>> THEN 100 ELSE Max(0, 100 - penalty)

CalculateSecurityScore(issues) ==
  LET security_issues == SelectSeq(issues, IsSecurity)
      penalty == SumSeq([k \in 1..Len(security_issues) |->
                           SecurityPenalty(security_issues[k])])
  IN IF security_issues = <<>> THEN 100 ELSE Max(0, 100 - penalty)

CalculateUXScore(issues) ==
  LET ux_issues == SelectSeq(issues, IsUX)
      penalty == SumSeq([k \in 1..Len(ux_issues) |-> UXPenalty(ux_issues[k])])
  IN IF ux_issues = <<>> THEN 100 ELSE Max(0, 100 - penalty)

\* a variant that counts critical and high issues of type bug only
QualityScoreOfBugs(issues) ==
  LET bugs == SelectSeq(issues, LAMBDA i : i.type = "bug")
      total_issues == Len(issues)
      critical_issues == Len(SelectSeq(bugs, IsCritical))
      high_issues == Len(SelectSeq(bugs, IsHigh))
  IN Max(0, 100 - (critical_issues * 25 + high_issues * 10 + total_issues * 2))

QualityScore(issues) ==
  LET total_issues == Len(issues)
      critical_issues == Len(SelectSeq(issues, IsCritical))
      high_issues == Len(SelectSeq(issues, IsHigh))
  IN Max(0, 100 - (critical_issues * 25 + high_issues * 10 + total_issues * 2))

PerformanceScore(analysis) ==
  Get(Get(analysis, "performance", EmptyDict), "score", 100)

CalculateMetrics(issues, analysis) ==
  [quality_score |-> QualityScore(issues),
   accessibility_score |-> CalculateAccessibilityScore(issues),
   performance_score |-> PerformanceScore(analysis),
   security_score |-> CalculateSecurityScore(issues),
   ux_score |-> CalculateUXScore(issues)]

(***************************************************************************)
(* The page-data Provider: WebScraper.scrape_page and the snapshot it      *)
(* returns, by the keys the agent and its detectors read.                  *)
(***************************************************************************)
TestUrl == "https://example.com"

\* one raw accessibility observation of a snapshot
Observation(tag) ==
  [type |-> tag,
   element |-> [tagName |-> "img", selector |-> "img:nth-of-type(1)"],
   message |-> "Image missing alt text"]

\* the snapshot scrape_page returns today
MockSnapshot(url) ==
  [url |-> url,
   accessibility |-> [issues |-> <<Observation("missing_alt_text")>>],
   performance |-> [score |-> 85]]

\* snapshots of the Provider's output shape: the one above, one without an
\* accessibility sub-bundle, one with several observations, and one whose
\* observation lacks its message
Snapshots(url) ==
  {MockSnapshot(url),
   [url |-> url, performance |-> [score |-> 85]],
   [url |-> url,
    accessibility |->
      [issues |-> <<Observation("keyboard_accessibility"),
                    Observation("aria_label")>>],
    performance |-> [score |-> 85]],
   [url |-> url,
    accessibility |->
      [issues |-> <<[type |-> "color_contrast",
                     element |-> [tagName |-> "p", selector |-> "p"]]>>],
    performance |-> [score |-> 85]]}

\* the errors with which an acquisition can end
ProviderErrors == {"AcquisitionError", "TimeoutError"}

\* the five default acquisition options of _collect_page_data
DefaultOptions ==
  [take_screenshots |-> TRUE, analyze_accessibility |-> TRUE,
   measure_performance |-> TRUE, extract_forms |-> TRUE,
   map_user_flows |-> TRUE]

\* the option mappings a caller passes to analyze_website
CallerOptions == {EmptyDict, [take_screenshots |-> FALSE, device |-> TRUE]}

(***************************************************************************)
(* AccessibilityDetector.                                                  *)
(***************************************************************************)
\* a variant whose default severity is low
AccessibilitySeverityDefaultsLow(tag) ==
  IF tag = "missing_alt_text" THEN "high"
  ELSE IF tag = "keyboard_accessibility" THEN "critical"
  ELSE IF tag = "color_contrast" THEN "medium"
  ELSE IF tag = "heading_structure" THEN "medium"
  ELSE "low"

\* severity_map.get(issue_type, IssueSeverity.MEDIUM)
AccessibilitySeverity(tag) ==
  IF tag = "missing_alt_text" THEN "high"
  ELSE IF tag = "keyboard_accessibility" THEN "critical"
  ELSE IF tag = "color_contrast" THEN "medium"
  ELSE IF tag = "heading_structure" THEN "medium"
  ELSE "medium"

\* _get_issue_title
AccessibilityTitle(tag) ==
  IF tag = "missing_alt_text" THEN "Image Missing Alt Text"
  ELSE IF tag = "keyboard_accessibility" THEN "Element Not Keyboard Accessible"
  ELSE IF tag = "color_contrast" THEN "Insufficient Color Contrast"
  ELSE IF tag = "heading_structure" THEN "Improper Heading Structure"
  ELSE "Accessibility Issue"

\* the subscripts of _create_accessibility_issue raise KeyError on a missing key
WellFormed(issue_data) == {"type", "element", "message"} \subseteq DOMAIN issue_data

CreateAccessibilityIssue(issue_data) ==
  QAIssue("accessibility", AccessibilitySeverity(issue_data.type),
          AccessibilityTitle(issue_data.type))

\* detect_issues: what the call returns, or the error it raises
DetectIssues(page_data) ==
  IF "accessibility" \notin DOMAIN page_data
    THEN [status |-> "returned", value |-> <<>>, exc |-> ""]
  ELSE
    LET raw == Get(page_data["accessibility"], "issues", <<>>)
    IN IF \E k \in 1..Len(raw) : ~WellFormed(raw[k])
         THEN [status |-> "raised", value |-> <<>>, exc |-> "KeyError"]
         ELSE [status |-> "returned",
               value |-> [k \in 1..Len(raw) |-> CreateAccessibilityIssue(raw[k])],
               exc |-> ""]

(***************************************************************************)
(* The registries of _load_detectors and _load_analyzers.                  *)
(***************************************************************************)
Detectors ==
  <<[class |-> "AccessibilityDetector", key |-> "accessibility"],
    [class |-> "PerformanceDetector", key |-> "performance"],
    [class |-> "VisualDetector", key |-> "visual"],
    [class |-> "SecurityDetector", key |-> "security"]>>

Analyzers == <<"ContentAnalyzer", "LayoutAnalyzer", "InteractionAnalyzer">>

\* __class__.__name__.lower()
Lower(name) ==
  CASE name = "ContentAnalyzer" -> "contentanalyzer"
    [] name = "LayoutAnalyzer" -> "layoutanalyzer"
    [] name = "InteractionAnalyzer" -> "interactionanalyzer"
    [] name = "PerformanceAnalyzer" -> "performanceanalyzer"

\* the sub-mapping a unit is constructed with: absent, or with its enabled flag
SubConfigs == {EmptyDict, [enabled |-> TRUE], [enabled |-> FALSE]}

Configs == [{Detectors[k].key : k \in 1..Len(Detectors)} -> SubConfigs]

\* is_enabled of each detector of the registry
IsEnabled(detector, config) ==
  IF detector.class = "PerformanceDetector" THEN FALSE
  ELSE Get(config[detector.key], "enabled", TRUE)

\* all sequences over S of length at most n
SeqsUpTo(S, n) == UNION {[1..k -> S] : k \in 0..n}

\* what a detector's task ends with: the list it returns or the error it raises
Returns(value) == [status |-> "returned", value |-> value, exc |-> ""]
Raises(exc, empty) == [status |-> "raised", value |-> empty, exc |-> exc]

\* PerformanceDetector.detect_issues
PerformanceDetectIssues(page_data) == Returns(<<>>)

\* VisualDetector.detect_issues: an error, or a list of visual issues
VisualDetectorOutcomes ==
  {Raises("VisualError", <<>>)}
  \cup {Returns(v) :
          v \in SeqsUpTo({QAIssue("visual_regression", "low", "Layout Shift"),
                          QAIssue("visual_regression", "critical", "Broken Layout")},
                         MaxOut)}

\* SecurityDetector.detect_issues: an error, or a list of security issues
SecurityDetectorOutcomes ==
  {Raises("SecurityError", <<>>)}
  \cup {Returns(v) :
          v \in SeqsUpTo({QAIssue("security", "high", "Mixed Content"),
                          QAIssue("security", "critical", "Missing CSP")},
                         MaxOut)}

\* what detector.detect_issues(page_data) can do, by the detector's class
DetectorOutcomes(class, page_data) ==
  IF class = "AccessibilityDetector" THEN {DetectIssues(page_data)}
  ELSE IF class = "PerformanceDetector" THEN {PerformanceDetectIssues(page_data)}
  ELSE IF class = "VisualDetector" THEN VisualDetectorOutcomes
  ELSE SecurityDetectorOutcomes

\* a registry to which a Performance Analyzer has been added
RegisteredAnalyzers == Append(Analyzers, "PerformanceAnalyzer")

\* what analyze of an analyzer can do on a snapshot: raise, or return its
\* result, which for a Performance Analyzer has a score
AnalyzerOutcomes(class, page_data) ==
  IF class = "PerformanceAnalyzer"
    THEN {Raises("AnalyzerError", EmptyDict)}
         \cup {Returns([analyzer |-> class, score |-> v]) : v \in {60, 85}}
    ELSE {Raises("AnalyzerError", EmptyDict),
          Returns([analyzer |-> class, url |-> page_data.url])}

\* RecommendationEngine.generate_recommendations: a list of texts, or an error
Recommend(issues, analysis) ==
  [k \in 1..Len(SelectSeq(issues, IsCritical)) |->
     SelectSeq(issues, IsCritical)[k].title]

EngineErrors == {"RecommendationError", "ValueError"}

(***************************************************************************)
(* The state of one run of analyze_website.                                *)
(***************************************************************************)
VARIABLES
  config,            \* self.config, by the sub-mappings of the detectors
  analyzers,         \* self.analyzers, by the class names of its entries
  options,           \* the options argument of analyze_website
  pc,                \* where the coroutine analyze_website stands
  scrape_calls,      \* the calls of scrape_page made so far, by their options
  page_data,         \* the snapshot of phase 1
  detector_tasks,    \* the tasks list of _run_detectors, in creation order
  analyzer_tasks,    \* the tasks list of _run_analyzers, in creation order
  all_issues,        \* what _run_detectors returned
  analysis_results,  \* what _run_analyzers returned
  engine_calls,      \* the calls of generate_recommendations made so far
  recommendations,   \* what _generate_recommendations returned
  report,            \* the QAReport returned to the caller
  raised,            \* the exception that left analyze_website
  log,               \* the records written through self.logger
  finish_order       \* history: the detector tasks in the order they ended

vars ==
  <<config, analyzers, options, pc, scrape_calls, page_data, detector_tasks,
    analyzer_tasks, all_issues, analysis_results, engine_calls,
    recommendations, report, raised, log, finish_order>>

\* an exception: its class, the call that raised it, and the class of the
\* exception it wraps, if it wraps one
Exception(type, origin) == [type |-> type, origin |-> origin, cause |-> ""]

NoException == Exception("", "")

LogRecord(level, text, name, detail) ==
  [level |-> level, text |-> text, name |-> name, detail |-> detail]

Init ==
  /\ config \in Configs
  /\ analyzers = Analyzers
  /\ finish_order = <<>>
  /\ options \in CallerOptions
  /\ pc = "start"
  /\ scrape_calls = <<>>
  /\ page_data = EmptyDict
  /\ detector_tasks = <<>>
  /\ analyzer_tasks = <<>>
  /\ all_issues = <<>>
  /\ analysis_results = EmptyDict
  /\ engine_calls = <<>>
  /\ recommendations = <<>>
  /\ report = EmptyDict
  /\ raised = NoException
  /\ log = <<LogRecord("info", "Starting QA analysis for", TestUrl, "")>>

(***************************************************************************)
(* Phase 1: _collect_page_data.                                            *)
(***************************************************************************)
\* a variant that raises an AnalysisFailure wrapping the error instead
FailWrapped(exception) ==
  /\ pc' = "failed"
  /\ raised' = [type |-> "AnalysisFailure", origin |-> exception.origin,
                cause |-> exception.type]
  /\ log' = Append(log, LogRecord("error", "Analysis failed for", TestUrl,
                                  exception.type))

\* the except clause of analyze_website: log the error and raise it again
Fail(exception) ==
  /\ pc' = "failed"
  /\ raised' = exception
  /\ log' = Append(log, LogRecord("error", "Analysis failed for", TestUrl,
                                  exception.type))

\* scrape_page(url, {defaults, **options}), and how the call ended
ScrapeCall(opts, outcome) ==
  [options |-> Merge(DefaultOptions, opts), outcome |-> outcome, error |-> ""]

CollectPageDataReturns ==
  /\ pc = "start"
  /\ \E snapshot \in Snapshots(TestUrl) : page_data' = snapshot
  /\ scrape_calls' = Append(scrape_calls, ScrapeCall(options, "returned"))
  /\ pc' = "run_detectors"
  /\ UNCHANGED <<config, analyzers, finish_order, options, detector_tasks,
                 analyzer_tasks, all_issues, analysis_results, engine_calls,
                 recommendations, report, raised, log>>

\* a variant that logs the Provider's error and goes on with an empty snapshot
CollectPageDataContinues ==
  /\ pc = "start"
  /\ scrape_calls' = Append(scrape_calls, ScrapeCall(options, "raised"))
  /\ page_data' = [url |-> TestUrl]
  /\ log' = Append(log, LogRecord("error", "Analysis failed for", TestUrl,
                                  "AcquisitionError"))
  /\ pc' = "run_detectors"
  /\ UNCHANGED <<config, analyzers, finish_order, options, detector_tasks,
                 analyzer_tasks, all_issues, analysis_results, engine_calls,
                 recommendations, report, raised>>

CollectPageDataRaises ==
  /\ pc = "start"
  /\ \E e \in ProviderErrors :
       /\ scrape_calls' =
            Append(scrape_calls, [ScrapeCall(options, "raised") EXCEPT !.error = e])
       /\ Fail(Exception(e, "provider"))
  /\ UNCHANGED <<config, analyzers, finish_order, options, page_data,
                 detector_tasks, analyzer_tasks, all_issues, analysis_results,
                 engine_calls, recommendations, report>>

(***************************************************************************)
(* Phase 2: _run_detectors.                                                *)
(***************************************************************************)
Task(unit, arg, empty) ==
  [unit |-> unit, arg |-> arg, status |-> "running", value |-> empty, exc |-> ""]

Terminated(task) == task.status \in {"returned", "raised"}

\* a join that resolves with the first task to terminate
AnyTerminated(tasks) == \E k \in 1..Len(tasks) : Terminated(tasks[k])

\* a join that resolves only when every task has returned a value
AllReturned(tasks) == \A k \in 1..Len(tasks) : tasks[k].status = "returned"

\* asyncio.gather(*tasks, return_exceptions=True) resolves when every task has
AllTerminated(tasks) == \A k \in 1..Len(tasks) : Terminated(tasks[k])

Finish(task, outcome) ==
  [task EXCEPT !.status = outcome.status, !.value = outcome.value,
               !.exc = outcome.exc]

\* the loop that creates one task per enabled detector
RECURSIVE CreateDetectorTasks(_, _, _)
CreateDetectorTasks(detectors, cfg, snapshot) ==
  IF detectors = <<>> THEN <<>>
  ELSE (IF IsEnabled(Head(detectors), cfg)
          THEN <<Task(Head(detectors).class, snapshot, <<>>)>>
          ELSE <<>>)
       \o CreateDetectorTasks(Tail(detectors), cfg, snapshot)

LaunchDetectors ==
  /\ pc = "run_detectors"
  /\ detector_tasks' = CreateDetectorTasks(Detectors, config, page_data)
  /\ pc' = "gather_detectors"
  /\ UNCHANGED <<config, analyzers, finish_order, options, scrape_calls,
                 page_data, analyzer_tasks, all_issues, analysis_results,
                 engine_calls, recommendations, report, raised, log>>

\* one detector task runs to its end
DetectorEnds(k) ==
  /\ detector_tasks[k].status = "running"
  /\ \E outcome \in DetectorOutcomes(detector_tasks[k].unit, detector_tasks[k].arg) :
       detector_tasks' = [detector_tasks EXCEPT ![k] = Finish(@, outcome)]
  /\ UNCHANGED <<config, analyzers, options, pc, scrape_calls,
                 page_data, analyzer_tasks, all_issues, analysis_results,
                 engine_calls, recommendations, report, raised, log>>

DetectorTerminates(k) == DetectorEnds(k) /\ UNCHANGED finish_order

\* the same step, with the order of completion kept as a history
DetectorTerminatesObserved(k) ==
  DetectorEnds(k) /\ finish_order' = Append(finish_order, k)

\* a variant that stops collecting at the first failed detector
RECURSIVE FlattenIssuesUntilError(_)
FlattenIssuesUntilError(results) ==
  IF results = <<>> \/ Head(results).status # "returned" THEN <<>>
  ELSE Head(results).value \o FlattenIssuesUntilError(Tail(results))

\* a variant that puts the later results first
RECURSIVE FlattenIssuesLaterFirst(_)
FlattenIssuesLaterFirst(results) ==
  IF results = <<>> THEN <<>>
  ELSE FlattenIssuesLaterFirst(Tail(results))
       \o (IF Head(results).status = "returned" THEN Head(results).value ELSE <<>>)

\* the loop over detector_results: extend all_issues by every returned list
RECURSIVE FlattenIssues(_)
FlattenIssues(results) ==
  IF results = <<>> THEN <<>>
  ELSE (IF Head(results).status = "returned" THEN Head(results).value ELSE <<>>)
       \o FlattenIssues(Tail(results))

HasRaised(entry) == entry.detail # ""

\* the error records of that loop: result i is logged under registry entry i
FailureLog(results, text, names) ==
  SelectSeq([i \in 1..Len(results) |->
               LogRecord("error", text, names[i],
                         IF results[i].status = "raised" THEN results[i].exc ELSE "")],
            HasRaised)

DetectorClasses == [k \in 1..Len(Detectors) |-> Detectors[k].class]

GatherDetectors ==
  /\ pc = "gather_detectors"
  /\ AllTerminated(detector_tasks)
  /\ all_issues' = FlattenIssues(detector_tasks)
  /\ log' = log \o FailureLog(detector_tasks, "Detector failed", DetectorClasses)
  /\ pc' = "run_analyzers"
  /\ UNCHANGED <<config, analyzers, finish_order, options, scrape_calls,
                 page_data, detector_tasks, analyzer_tasks, analysis_results,
                 engine_calls, recommendations, report, raised>>

(***************************************************************************)
(* Phase 3: _run_analyzers.                                                *)
(***************************************************************************)
\* a variant that acquires the page a second time for the analyzers
LaunchAnalyzersRescrapes ==
  /\ pc = "run_analyzers"
  /\ scrape_calls' = Append(scrape_calls, ScrapeCall(options, "returned"))
  /\ analyzer_tasks' =
       [k \in 1..Len(analyzers) |-> Task(analyzers[k], page_data, EmptyDict)]
  /\ pc' = "gather_analyzers"
  /\ UNCHANGED <<config, analyzers, finish_order, options, page_data,
                 detector_tasks, all_issues, analysis_results, engine_calls,
                 recommendations, report, raised, log>>

LaunchAnalyzers ==
  /\ pc = "run_analyzers"
  /\ analyzer_tasks' =
       [k \in 1..Len(analyzers) |-> Task(analyzers[k], page_data, EmptyDict)]
  /\ pc' = "gather_analyzers"
  /\ UNCHANGED <<config, analyzers, finish_order, options, scrape_calls,
                 page_data, detector_tasks, all_issues, analysis_results,
                 engine_calls, recommendations, report, raised, log>>

AnalyzerTerminates(k) ==
  /\ analyzer_tasks[k].status = "running"
  /\ \E outcome \in AnalyzerOutcomes(analyzer_tasks[k].unit, analyzer_tasks[k].arg) :
       analyzer_tasks' = [analyzer_tasks EXCEPT ![k] = Finish(@, outcome)]
  /\ UNCHANGED <<config, analyzers, finish_order, options, pc, scrape_calls,
                 page_data, detector_tasks, all_issues, analysis_results,
                 engine_calls, recommendations, report, raised, log>>

\* a variant that names the entries by their position among the successes
RECURSIVE CombineResultsByPosition(_, _, _)
CombineResultsByPosition(combined, results, i) ==
  IF i > Len(results) THEN combined
  ELSE CombineResultsByPosition(
         IF results[i].status = "returned"
           THEN Put(combined, Lower(analyzers[Cardinality(DOMAIN combined) + 1]),
                    results[i].value)
           ELSE combined,
         results, i + 1)

\* the loop over analyzer_results: one entry per returned result, under the
\* lower-cased class name of registry entry i
RECURSIVE CombineResults(_, _, _)
CombineResults(combined, results, i) ==
  IF i > Len(results) THEN combined
  ELSE CombineResults(
         IF results[i].status = "returned"
           THEN Put(combined, Lower(analyzers[i]), results[i].value)
           ELSE combined,
         results, i + 1)

GatherAnalyzers ==
  /\ pc = "gather_analyzers"
  /\ AllTerminated(analyzer_tasks)
  /\ analysis_results' = CombineResults(EmptyDict, analyzer_tasks, 1)
  /\ log' = log \o FailureLog(analyzer_tasks, "Analyzer failed", analyzers)
  /\ pc' = "recommend"
  /\ UNCHANGED <<config, analyzers, finish_order, options, scrape_calls,
                 page_data, detector_tasks, analyzer_tasks, all_issues,
                 engine_calls, recommendations, report, raised>>

(***************************************************************************)
(* Phase 4: _generate_recommendations.                                     *)
(***************************************************************************)
InvokeEngine ==
  /\ pc = "recommend"
  /\ engine_calls' =
       Append(engine_calls, [issues |-> all_issues, analysis |-> analysis_results,
                             outcome |-> "pending", error |-> ""])
  /\ pc' = "await_engine"
  /\ UNCHANGED <<config, analyzers, finish_order, options, scrape_calls,
                 page_data, detector_tasks, analyzer_tasks, all_issues,
                 analysis_results, recommendations, report, raised, log>>

EngineReturns ==
  /\ pc = "await_engine"
  /\ recommendations' = Recommend(all_issues, analysis_results)
  /\ engine_calls' = [engine_calls EXCEPT ![Len(engine_calls)].outcome = "returned"]
  /\ pc' = "assemble"
  /\ UNCHANGED <<config, analyzers, finish_order, options, scrape_calls,
                 page_data, detector_tasks, analyzer_tasks, all_issues,
                 analysis_results, report, raised, log>>

\* a variant that isolates the Engine's failure like a unit's
EngineFailureIsolated ==
  /\ pc = "await_engine"
  /\ engine_calls' = [engine_calls EXCEPT ![Len(engine_calls)].outcome = "raised"]
  /\ recommendations' = <<>>
  /\ log' = Append(log, LogRecord("error", "Recommendations failed", TestUrl,
                                  "RecommendationError"))
  /\ pc' = "assemble"
  /\ UNCHANGED <<config, analyzers, finish_order, options, scrape_calls,
                 page_data, detector_tasks, analyzer_tasks, all_issues,
                 analysis_results, report, raised>>

EngineRaises ==
  /\ pc = "await_engine"
  /\ \E e \in EngineErrors :
       /\ engine_calls' = [engine_calls EXCEPT ![Len(engine_calls)].outcome = "raised",
                                               ![Len(engine_calls)].error = e]
       /\ Fail(Exception(e, "engine"))
  /\ UNCHANGED <<config, analyzers, finish_order, options, scrape_calls,
                 page_data, detector_tasks, analyzer_tasks, all_issues,
                 analysis_results, recommendations, report>>

(***************************************************************************)
(* Phase 5: the QAReport.                                                  *)
(***************************************************************************)
\* a variant whose scoring drains the issue list it is given
BuildReportDrainsIssues ==
  /\ pc = "assemble"
  /\ report' =
       [url |-> TestUrl,
        issues |-> all_issues,
        summary |-> CreateSummary(all_issues),
        metrics |-> CalculateMetrics(all_issues, analysis_results),
        recommendations |-> recommendations]
  /\ all_issues' = <<>>
  /\ log' = Append(log, LogRecord("info", "Analysis complete. Found issues",
                                  TestUrl, ""))
  /\ pc' = "done"
  /\ UNCHANGED <<config, analyzers, finish_order, options, scrape_calls,
                 page_data, detector_tasks, analyzer_tasks,
                 analysis_results, engine_calls, recommendations, raised>>

\* a variant whose summary tells that a detector failed
BuildReportMarksFailures ==
  /\ pc = "assemble"
  /\ report' =
       [url |-> TestUrl,
        issues |-> all_issues,
        summary |->
          IF \E k \in 1..Len(detector_tasks) : detector_tasks[k].status = "raised"
            THEN Put(CreateSummary(all_issues), "degraded", TRUE)
            ELSE CreateSummary(all_issues),
        metrics |-> CalculateMetrics(all_issues, analysis_results),
        recommendations |-> recommendations]
  /\ log' = Append(log, LogRecord("info", "Analysis complete. Found issues",
                                  TestUrl, ""))
  /\ pc' = "done"
  /\ UNCHANGED <<config, analyzers, finish_order, options, scrape_calls,
                 page_data, detector_tasks, analyzer_tasks, all_issues,
                 analysis_results, engine_calls, recommendations, raised>>

BuildReport ==
  /\ pc = "assemble"
  /\ report' =
       [url |-> TestUrl,
        issues |-> all_issues,
        summary |-> CreateSummary(all_issues),
        metrics |-> CalculateMetrics(all_issues, analysis_results),
        recommendations |-> recommendations]
  /\ log' = Append(log, LogRecord("info", "Analysis complete. Found issues",
                                  TestUrl, ""))
  /\ pc' = "done"
  /\ UNCHANGED <<config, analyzers, finish_order, options, scrape_calls,
                 page_data, detector_tasks, analyzer_tasks, all_issues,
                 analysis_results, engine_calls, recommendations, raised>>

Next ==
  \/ CollectPageDataReturns
  \/ CollectPageDataRaises
  \/ LaunchDetectors
  \/ \E k \in 1..Len(detector_tasks) : DetectorTerminates(k)
  \/ GatherDetectors
  \/ LaunchAnalyzers
  \/ \E k \in 1..Len(analyzer_tasks) : AnalyzerTerminates(k)
  \/ GatherAnalyzers
  \/ InvokeEngine
  \/ EngineReturns
  \/ EngineRaises
  \/ BuildReport

Spec == Init /\ [][Next]_vars

(***************************************************************************)
(* The summary and scoring functions on arbitrary aggregates: the          *)
(* assembly step of analyze_website applied to every issue list and        *)
(* Analysis bundle of the bounded sets below.                              *)
(***************************************************************************)
IssueKinds == {QAIssue(t, s, "Issue") : t \in IssueType, s \in IssueSeverity}

Repeat(x, n) == [k \in 1..n |-> x]

\* every list of at most MaxLen issues, and every run of at most MaxRun equal
\* issues, alone or followed by one more issue
IssueLists ==
  SeqsUpTo(IssueKinds, MaxLen)
  \cup {Repeat(x, n) : x \in IssueKinds, n \in 1..MaxRun}
  \cup {Append(Repeat(x, n), y) : x \in IssueKinds, n \in 1..MaxRun, y \in IssueKinds}

\* Analysis bundles: empty, with an analyzer's entry, and with a performance
\* entry that has no score or one of several scores
Bundles ==
  {EmptyDict,
   [contentanalyzer |-> [analyzer |-> "ContentAnalyzer", url |-> TestUrl]],
   [performance |-> EmptyDict]}
  \cup {[performance |-> [score |-> v]] : v \in {0 - 5, 0, 85, 100, 150}}

InitScore ==
  /\ config = [k \in {Detectors[i].key : i \in 1..Len(Detectors)} |-> EmptyDict]
  /\ analyzers = Analyzers
  /\ finish_order = <<>>
  /\ options = EmptyDict
  /\ pc = "assemble"
  /\ scrape_calls = <<>>
  /\ page_data = MockSnapshot(TestUrl)
  /\ detector_tasks = <<>>
  /\ analyzer_tasks = <<>>
  /\ all_issues \in IssueLists
  /\ analysis_results \in Bundles
  /\ engine_calls = <<>>
  /\ recommendations = Recommend(all_issues, analysis_results)
  /\ report = EmptyDict
  /\ raised = NoException
  /\ log = <<>>

NextScore == BuildReport

SpecScore == InitScore /\ [][NextScore]_vars

(***************************************************************************)
(* Vocabulary of the properties.                                           *)
(***************************************************************************)
Indices(seq) == 1..Len(seq)

Raised(tasks) == {k \in Indices(tasks) : tasks[k].status = "raised"}
Returned(tasks) == {k \in Indices(tasks) : tasks[k].status = "returned"}

\* how often x occurs in a list
Occurrences(x, seq) == Cardinality({i \in Indices(seq) : seq[i] = x})

\* how often x occurs in the lists the tasks of K returned
RECURSIVE OccurrencesIn(_, _, _)
OccurrencesIn(x, tasks, K) ==
  IF K = {} THEN 0
  ELSE LET k == CHOOSE j \in K : TRUE
       IN Occurrences(x, tasks[k].value) + OccurrencesIn(x, tasks, K \ {k})

IssuesOf(tasks) == UNION {{tasks[k].value[i] : i \in Indices(tasks[k].value)} :
                            k \in Indices(tasks)}

Elements(seq) == {seq[i] : i \in Indices(seq)}

\* the sum of the values of a dictionary
RECURSIVE SumValues(_)
SumValues(d) ==
  IF DOMAIN d = {} THEN 0
  ELSE LET k == CHOOSE x \in DOMAIN d : TRUE
       IN d[k] + SumValues([x \in (DOMAIN d) \ {k} |-> d[x]])

PhaseADone ==
  pc \in {"run_analyzers", "gather_analyzers", "recommend", "await_engine",
          "assemble", "done"}
  \/ (pc = "failed" /\ raised.origin # "provider")

PhaseBDone ==
  pc \in {"recommend", "await_engine", "assemble", "done"}
  \/ (pc = "failed" /\ raised.origin # "provider")

ProviderFailed == \E i \in Indices(scrape_calls) : scrape_calls[i].outcome = "raised"
EngineFailed == \E i \in Indices(engine_calls) : engine_calls[i].outcome = "raised"

(***************************************************************************)
(* C1. Detector isolation: when exactly one of the launched detectors has  *)
(* failed and the others have returned, the aggregate issue list holds     *)
(* every issue the others returned as often as they returned it and        *)
(* nothing else, the failure never ends the run (only the Recommendation   *)
(* Engine can still fail it), and the Report of the run carries that list. *)
(***************************************************************************)
OneDetectorFailed ==
  /\ PhaseADone
  /\ Cardinality(Raised(detector_tasks)) = 1
  /\ Cardinality(Returned(detector_tasks)) = Len(detector_tasks) - 1

DetectorIsolation ==
  OneDetectorFailed =>
    /\ \A x \in IssuesOf(detector_tasks) \cup Elements(all_issues) :
         Occurrences(x, all_issues)
           = OccurrencesIn(x, detector_tasks, Returned(detector_tasks))
    /\ pc = "failed" => EngineFailed /\ raised.origin = "engine"
    /\ pc = "done" => report # EmptyDict /\ report.issues = all_issues

DetectorIsolationWitness ==
  /\ OneDetectorFailed
  /\ Len(detector_tasks) = 3
  /\ detector_tasks[2].status = "raised"
  /\ detector_tasks[1].value # <<>>
  /\ detector_tasks[3].value # <<>>
  /\ pc = "done"

(***************************************************************************)
(* C2. Analyzer isolation: after Phase B the Analysis bundle has exactly   *)
(* one entry per analyzer that returned, under that analyzer's lower-cased *)
(* class name and holding its result, and none for an analyzer that        *)
(* failed; an analyzer's failure never fails the run.                      *)
(***************************************************************************)
AnalyzerIsolation ==
  PhaseBDone =>
    /\ DOMAIN analysis_results =
         {Lower(analyzer_tasks[k].unit) : k \in Returned(analyzer_tasks)}
    /\ Cardinality(DOMAIN analysis_results) = Cardinality(Returned(analyzer_tasks))
    /\ \A k \in Returned(analyzer_tasks) :
         /\ analysis_results[Lower(analyzer_tasks[k].unit)] = analyzer_tasks[k].value
         /\ analyzer_tasks[k].value.analyzer = Analyzers[k]
    /\ \A k \in Raised(analyzer_tasks) :
         Lower(Analyzers[k]) \notin DOMAIN analysis_results
    /\ pc = "failed" => EngineFailed /\ raised.origin = "engine"
    /\ pc = "done" => report # EmptyDict

AnalyzerIsolationWitness ==
  /\ pc = "done"
  /\ analyzer_tasks[1].status = "raised"
  /\ analyzer_tasks[2].status = "returned"
  /\ analyzer_tasks[3].status = "raised"
  /\ DOMAIN analysis_results = {"layoutanalyzer"}

(***************************************************************************)
(* C3. Acquisition failure is fatal: when the Provider's call has failed,  *)
(* the run has failed with the Provider's error, there is no Report, and   *)
(* no detector, analyzer or Recommendation Engine has been or will be      *)
(* invoked.                                                                *)
(***************************************************************************)
AcquisitionFailureFatal ==
  ProviderFailed =>
    /\ pc = "failed"
    /\ raised.origin = "provider" /\ raised.type \in ProviderErrors
    /\ report = EmptyDict
    /\ detector_tasks = <<>>
    /\ analyzer_tasks = <<>>
    /\ engine_calls = <<>>

AcquisitionFailureWitness ==
  /\ ProviderFailed
  /\ pc = "failed"
  /\ log[Len(log)].level = "error"

(***************************************************************************)
(* C4. Recommendation failure is fatal: when the Recommendation Engine     *)
(* has failed, the run has failed with the Engine's error and there is no  *)
(* Report, whatever the detectors and analyzers returned.                  *)
(***************************************************************************)
RecommendationFailureFatal ==
  EngineFailed =>
    /\ pc = "failed"
    /\ raised.origin = "engine" /\ raised.type \in EngineErrors
    /\ report = EmptyDict

RecommendationFailureWitness ==
  /\ EngineFailed
  /\ pc = "failed"
  /\ Raised(detector_tasks) = {}
  /\ Raised(analyzer_tasks) = {}
  /\ all_issues # <<>>
  /\ Cardinality(DOMAIN analysis_results) = 3

(***************************************************************************)
(* C5. Wait-for-all join: in the detector phase and in the analyzer phase  *)
(* the aggregate is written, and the run moves on, only when every task    *)
(* launched in the phase has ended by returning or by raising; no task is  *)
(* ever in another state than running, returned or raised (none is         *)
(* cancelled).                                                             *)
(***************************************************************************)
Ended(tasks) == \A k \in Indices(tasks) : tasks[k].status \in {"returned", "raised"}

DetectorAggregateWritten ==
  \/ PhaseADone
  \/ all_issues # <<>>
  \/ \E i \in Indices(log) : log[i].text = "Detector failed"

AnalyzerAggregateWritten ==
  \/ PhaseBDone
  \/ analysis_results # EmptyDict
  \/ \E i \in Indices(log) : log[i].text = "Analyzer failed"

WaitForAllJoin ==
  /\ DetectorAggregateWritten => Ended(detector_tasks)
  /\ AnalyzerAggregateWritten => Ended(analyzer_tasks)
  /\ \A k \in Indices(detector_tasks) :
       detector_tasks[k].status \in {"running", "returned", "raised"}
  /\ \A k \in Indices(analyzer_tasks) :
       analyzer_tasks[k].status \in {"running", "returned", "raised"}

WaitForAllJoinWitness ==
  /\ pc = "recommend"
  /\ Len(detector_tasks) = 3
  /\ Raised(detector_tasks) = {1}
  /\ Raised(analyzer_tasks) = {2}
  /\ all_issues # <<>>
  /\ DOMAIN analysis_results = {"contentanalyzer", "interactionanalyzer"}

(***************************************************************************)
(* C6. Phase ordering: the snapshot is acquired once, and before any       *)
(* detector is launched; analyzers are launched only when every launched   *)
(* detector has terminated; the Recommendation Engine is invoked, once,    *)
(* only when every analyzer has terminated; the Report exists only when    *)
(* the Engine has returned; every detector and analyzer task received the  *)
(* snapshot of the run.                                                    *)
(***************************************************************************)
PhaseOrdering ==
  /\ Len(scrape_calls) <= 1
  /\ pc # "start" => Len(scrape_calls) = 1
  /\ detector_tasks # <<>> =>
       /\ Len(scrape_calls) = 1 /\ scrape_calls[1].outcome = "returned"
       /\ page_data \in Snapshots(TestUrl)
  /\ analyzer_tasks # <<>> =>
       /\ Len(scrape_calls) = 1 /\ scrape_calls[1].outcome = "returned"
       /\ Ended(detector_tasks)
       /\ Len(analyzer_tasks) = Len(Analyzers)
  /\ engine_calls # <<>> =>
       /\ Len(engine_calls) = 1
       /\ analyzer_tasks # <<>> /\ Ended(analyzer_tasks)
  /\ report # EmptyDict =>
       /\ Len(engine_calls) = 1 /\ engine_calls[1].outcome = "returned"
       /\ pc = "done"
  /\ \A k \in Indices(detector_tasks) : detector_tasks[k].arg = page_data
  /\ \A k \in Indices(analyzer_tasks) : analyzer_tasks[k].arg = page_data

PhaseOrderingWitness ==
  /\ pc = "done"
  /\ report # EmptyDict
  /\ Len(detector_tasks) = 3
  /\ Len(analyzer_tasks) = 3
  /\ page_data = MockSnapshot(TestUrl)

(***************************************************************************)
(* Vocabulary of the scoring properties: counts by index set and the       *)
(* penalty table of the specification.                                     *)
(***************************************************************************)
CountSeverity(issues, s) ==
  Cardinality({i \in Indices(issues) : issues[i].severity = s})

CountType(issues, t) == Cardinality({i \in Indices(issues) : issues[i].type = t})

CountBoth(issues, t, s) ==
  Cardinality({i \in Indices(issues) : issues[i].type = t /\ issues[i].severity = s})

Floor0(x) == IF x < 0 THEN 0 ELSE x

PenaltyTable ==
  [accessibility |-> [critical |-> 25, high |-> 15, medium |-> 5, low |-> 1],
   security |-> [critical |-> 40, high |-> 25, medium |-> 10, low |-> 2],
   user_experience |-> [critical |-> 20, high |-> 12, medium |-> 6, low |-> 2]]

CategoryPenalty(issues, t) ==
  PenaltyTable[t]["critical"] * CountBoth(issues, t, "critical")
  + PenaltyTable[t]["high"] * CountBoth(issues, t, "high")
  + PenaltyTable[t]["medium"] * CountBoth(issues, t, "medium")
  + PenaltyTable[t]["low"] * CountBoth(issues, t, "low")

ExpectedCategoryScore(issues, t) ==
  IF CountType(issues, t) = 0 THEN 100
  ELSE Floor0(100 - CategoryPenalty(issues, t))

Reported == report # EmptyDict

(***************************************************************************)
(* C7. Summary partition: in every Report the values of by_severity sum    *)
(* to total_issues, which is the length of the issue list, and so do the   *)
(* values of by_type.                                                      *)
(***************************************************************************)
SummaryPartition ==
  Reported =>
    /\ report.summary.total_issues = Len(report.issues)
    /\ SumValues(report.summary.by_severity) = report.summary.total_issues
    /\ SumValues(report.summary.by_type) = report.summary.total_issues

SummaryPartitionWitness ==
  /\ Reported
  /\ Len(report.issues) >= 3
  /\ Cardinality(DOMAIN report.summary.by_severity) = 2
  /\ Cardinality(DOMAIN report.summary.by_type) = 2

(***************************************************************************)
(* C8. Score range: each of the five values of the Metrics of a Report is  *)
(* at least 0 and at most 100, for every issue list and Analysis bundle.   *)
(***************************************************************************)
ScoresInRange ==
  Reported =>
    /\ report.metrics.quality_score \in 0..100
    /\ report.metrics.accessibility_score \in 0..100
    /\ report.metrics.performance_score \in 0..100
    /\ report.metrics.security_score \in 0..100
    /\ report.metrics.ux_score \in 0..100

(***************************************************************************)
(* C9. Quality score: quality_score is 100 - (25 C + 10 H + 2 T), floored  *)
(* at 0, where C and H count the critical and the high issues of any type  *)
(* and T counts all issues; no issue gives 100, one high issue 88, one     *)
(* critical issue 73, ten low issues 80.                                   *)
(***************************************************************************)
QualityScoreFormula ==
  Reported =>
    LET issues == report.issues
        score == report.metrics.quality_score
    IN /\ score = Floor0(100 - (25 * CountSeverity(issues, "critical")
                                + 10 * CountSeverity(issues, "high")
                                + 2 * Len(issues)))
       /\ issues = <<>> => score = 100
       /\ (Len(issues) = 1 /\ issues[1].severity = "high") => score = 88
       /\ (Len(issues) = 1 /\ issues[1].severity = "critical") => score = 73
       /\ (Len(issues) = 10 /\ CountSeverity(issues, "low") = 10) => score = 80

QualityScoreWitness ==
  /\ Reported
  /\ Len(report.issues) = 10
  /\ CountSeverity(report.issues, "low") = 10
  /\ CountType(report.issues, "bug") = 10
  /\ report.metrics.quality_score = 80

(***************************************************************************)
(* C10. Category scores: the accessibility, security and ux scores are     *)
(* 100 exactly when no issue has the category's type, and otherwise 100    *)
(* minus the penalties of the issues of that type, by the category's       *)
(* penalty table, floored at 0; issues of other types do not count.        *)
(***************************************************************************)
CategoryScoreFormula ==
  Reported =>
    LET issues == report.issues
        metrics == report.metrics
    IN /\ metrics.accessibility_score = ExpectedCategoryScore(issues, "accessibility")
       /\ metrics.security_score = ExpectedCategoryScore(issues, "security")
       /\ metrics.ux_score = ExpectedCategoryScore(issues, "user_experience")
       /\ metrics.accessibility_score = 100 <=> CountType(issues, "accessibility") = 0
       /\ metrics.security_score = 100 <=> CountType(issues, "security") = 0
       /\ metrics.ux_score = 100 <=> CountType(issues, "user_experience") = 0

CategoryScoreWitness ==
  /\ Reported
  /\ CountBoth(report.issues, "security", "critical") = 3
  /\ CountBoth(report.issues, "accessibility", "low") = 1
  /\ report.metrics.security_score = 0
  /\ report.metrics.accessibility_score = 99
  /\ report.metrics.ux_score = 100

(***************************************************************************)
(* A run of analyze_website of an agent whose analyzer registry has a      *)
(* Performance Analyzer as well.                                           *)
(***************************************************************************)
DefaultConfig == [k \in {Detectors[i].key : i \in 1..Len(Detectors)} |-> EmptyDict]

InitRegistered ==
  /\ config = DefaultConfig
  /\ analyzers = RegisteredAnalyzers
  /\ finish_order = <<>>
  /\ options = EmptyDict
  /\ pc = "start"
  /\ scrape_calls = <<>>
  /\ page_data = EmptyDict
  /\ detector_tasks = <<>>
  /\ analyzer_tasks = <<>>
  /\ all_issues = <<>>
  /\ analysis_results = EmptyDict
  /\ engine_calls = <<>>
  /\ recommendations = <<>>
  /\ report = EmptyDict
  /\ raised = NoException
  /\ log = <<LogRecord("info", "Starting QA analysis for", TestUrl, "")>>

SpecRegistered == InitRegistered /\ [][Next]_vars

(***************************************************************************)
(* C11. Performance score sourcing: when a registered Performance          *)
(* Analyzer has returned a result with score S in Phase B, the Report's    *)
(* performance_score is S.                                                 *)
(***************************************************************************)
PerformanceScoreSourced ==
  pc = "done" =>
    \A k \in Returned(analyzer_tasks) :
      analyzer_tasks[k].unit = "PerformanceAnalyzer" =>
        report.metrics.performance_score = analyzer_tasks[k].value.score

(***************************************************************************)
(* C12. Detectors follow their configuration: once Phase A has launched    *)
(* its tasks, every detector of the registry has exactly one task if its   *)
(* own sub-mapping enables it (enabled true or absent) and none if its     *)
(* sub-mapping sets enabled false, whatever the other sub-mappings say.    *)
(***************************************************************************)
ConfigEnables(detector) == Get(config[detector.key], "enabled", TRUE)

TasksOf(detector) ==
  {k \in Indices(detector_tasks) : detector_tasks[k].unit = detector.class}

DetectorsLaunched == pc \notin {"start", "run_detectors"} /\ ~ProviderFailed

DetectorsFollowConfig ==
  DetectorsLaunched =>
    \A d \in Indices(Detectors) :
      Cardinality(TasksOf(Detectors[d])) = IF ConfigEnables(Detectors[d]) THEN 1 ELSE 0

(***************************************************************************)
(* C13. What the caller receives on a fatal failure.  As claimed: an       *)
(* AnalysisFailure that wraps the original cause.  As the code has it:     *)
(* the original exception of the Provider or of the Recommendation Engine, *)
(* logged and raised again unchanged, wrapped in nothing; and every        *)
(* failure of the Provider or of the Engine does reach the caller.         *)
(***************************************************************************)
FailureWrapped ==
  pc = "failed" => raised.type = "AnalysisFailure" /\ raised.cause # ""

OriginalError ==
  IF ProviderFailed THEN scrape_calls[Len(scrape_calls)].error
  ELSE IF EngineFailed THEN engine_calls[Len(engine_calls)].error
  ELSE ""

FailureReraised ==
  /\ (ProviderFailed \/ EngineFailed) => pc = "failed"
  /\ pc = "failed" =>
       /\ ProviderFailed \/ EngineFailed
       /\ OriginalError \in ProviderErrors \cup EngineErrors
       /\ raised.type = OriginalError
       /\ raised.cause = ""
       /\ log[Len(log)].level = "error" /\ log[Len(log)].detail = OriginalError
  /\ pc # "failed" => raised = NoException

FailureReraisedWitness ==
  /\ pc = "failed"
  /\ EngineFailed
  /\ raised.type = "ValueError"
  /\ all_issues # <<>>

(***************************************************************************)
(* Phase 1 for every options mapping a caller can pass: any of the five    *)
(* acquisition options and of one option of the caller's own, each true    *)
(* or false.                                                               *)
(***************************************************************************)
PartialMaps(keys, values) == UNION {[K -> values] : K \in SUBSET keys}

AllCallerOptions == PartialMaps((DOMAIN DefaultOptions) \cup {"device"}, BOOLEAN)

InitOptions ==
  /\ config = DefaultConfig
  /\ analyzers = Analyzers
  /\ finish_order = <<>>
  /\ options \in AllCallerOptions
  /\ pc = "start"
  /\ scrape_calls = <<>>
  /\ page_data = EmptyDict
  /\ detector_tasks = <<>>
  /\ analyzer_tasks = <<>>
  /\ all_issues = <<>>
  /\ analysis_results = EmptyDict
  /\ engine_calls = <<>>
  /\ recommendations = <<>>
  /\ report = EmptyDict
  /\ raised = NoException
  /\ log = <<LogRecord("info", "Starting QA analysis for", TestUrl, "")>>

NextOptions == CollectPageDataReturns \/ CollectPageDataRaises

SpecOptions == InitOptions /\ [][NextOptions]_vars

(***************************************************************************)
(* C14. Acquisition options merge: the options of every scrape_page call   *)
(* have the five default keys and the caller's keys and no other; a key    *)
(* the caller supplied has the caller's value, a default key the caller    *)
(* did not supply is true.                                                 *)
(***************************************************************************)
DefaultKeys ==
  {"take_screenshots", "analyze_accessibility", "measure_performance",
   "extract_forms", "map_user_flows"}

OptionsMerged ==
  \A i \in Indices(scrape_calls) :
    LET passed == scrape_calls[i].options
    IN /\ DOMAIN passed = DefaultKeys \cup DOMAIN options
       /\ \A k \in DOMAIN options : passed[k] = options[k]
       /\ \A k \in DefaultKeys \ DOMAIN options : passed[k] = TRUE

OptionsMergedWitness ==
  /\ pc = "run_detectors"
  /\ DOMAIN options = {"take_screenshots", "measure_performance", "device"}
  /\ options["take_screenshots"] = FALSE
  /\ options["measure_performance"] = TRUE
  /\ options["device"] = FALSE
  /\ scrape_calls[1].options["take_screenshots"] = FALSE
  /\ scrape_calls[1].options["extract_forms"] = TRUE

(***************************************************************************)
(* C15. Silent partial degradation: the Report of a run equals the Report  *)
(* of the run in which every failed detector returned an empty list and    *)
(* every other unit did the same, so the Report carries no trace of a      *)
(* detector's failure.                                                     *)
(***************************************************************************)
\* the same detector results, each failure replaced by an empty issue list
Silenced(tasks) ==
  [k \in Indices(tasks) |->
     IF tasks[k].status = "raised" THEN Finish(tasks[k], Returns(<<>>)) ELSE tasks[k]]

\* the Report of the run with these detector results and this Analysis bundle
ReportAfter(tasks, analysis) ==
  LET issues == FlattenIssues(tasks)
  IN [url |-> TestUrl,
      issues |-> issues,
      summary |-> CreateSummary(issues),
      metrics |-> CalculateMetrics(issues, analysis),
      recommendations |-> Recommend(issues, analysis)]

SilentDegradation ==
  pc = "done" =>
    /\ raised = NoException
    /\ report = ReportAfter(detector_tasks, analysis_results)
    /\ report = ReportAfter(Silenced(detector_tasks), analysis_results)

SilentDegradationWitness ==
  /\ pc = "done"
  /\ Raised(detector_tasks) # {}
  /\ Silenced(detector_tasks) # detector_tasks
  /\ report.issues # <<>>
  /\ report.recommendations # <<>>

(***************************************************************************)
(* C16. Scoring is idempotent and pure: the step that computes the Metrics *)
(* leaves the issue list, the Analysis bundle and the agent's state as     *)
(* they were, and scoring again in the state it leaves yields the Metrics  *)
(* it has just stored in the Report.                                       *)
(***************************************************************************)
ScoringStep == pc = "assemble" /\ pc' = "done"

IsRaised(task) == task.status = "raised"

\* the units of the failed tasks, in task order
RaisedUnits(tasks) ==
  LET failed == SelectSeq(tasks, IsRaised)
  IN [i \in Indices(failed) |-> failed[i].unit]

IsDetectorFailure(entry) == entry.text = "Detector failed"
IsAnalyzerFailure(entry) == entry.text = "Analyzer failed"

\* the unit names of the error records of a phase, in log order
LoggedDetectors ==
  LET records == SelectSeq(log, IsDetectorFailure)
  IN [i \in Indices(records) |-> records[i].name]

LoggedAnalyzers ==
  LET records == SelectSeq(log, IsAnalyzerFailure)
  IN [i \in Indices(records) |-> records[i].name]

FailureAttributed ==
  /\ PhaseADone => LoggedDetectors = RaisedUnits(detector_tasks)
  /\ PhaseBDone => LoggedAnalyzers = RaisedUnits(analyzer_tasks)

(***************************************************************************)
(* The run with the default configuration, observed with the order in      *)
(* which the detector tasks complete.                                      *)
(***************************************************************************)
InitOrder ==
  /\ config = DefaultConfig
  /\ analyzers = Analyzers
  /\ finish_order = <<>>
  /\ options = EmptyDict
  /\ pc = "start"
  /\ scrape_calls = <<>>
  /\ page_data = EmptyDict
  /\ detector_tasks = <<>>
  /\ analyzer_tasks = <<>>
  /\ all_issues = <<>>
  /\ analysis_results = EmptyDict
  /\ engine_calls = <<>>
  /\ recommendations = <<>>
  /\ report = EmptyDict
  /\ raised = NoException
  /\ log = <<LogRecord("info", "Starting QA analysis for", TestUrl, "")>>

NextOrder ==
  \/ CollectPageDataReturns
  \/ CollectPageDataRaises
  \/ LaunchDetectors
  \/ \E k \in 1..Len(detector_tasks) : DetectorTerminatesObserved(k)
  \/ GatherDetectors
  \/ LaunchAnalyzers
  \/ \E k \in 1..Len(analyzer_tasks) : AnalyzerTerminates(k)
  \/ GatherAnalyzers
  \/ InvokeEngine
  \/ EngineReturns
  \/ EngineRaises
  \/ BuildReport

SpecOrder == InitOrder /\ [][NextOrder]_vars

\* the issues the tasks returned, taken in the given order of task indices
RECURSIVE IssuesInOrder(_, _)
IssuesInOrder(order, tasks) ==
  IF order = <<>> THEN <<>>
  ELSE (IF tasks[Head(order)].status = "returned"
          THEN tasks[Head(order)].value ELSE <<>>)
       \o IssuesInOrder(Tail(order), tasks)

CreationOrder(tasks) == [k \in Indices(tasks) |-> k]

(***************************************************************************)
(* C18 as stated. The issue list is ordered by detector completion: the    *)
(* issues of the detectors in the order in which their tasks terminated.   *)
(***************************************************************************)
IssuesInCompletionOrder ==
  PhaseADone =>
    /\ all_issues = IssuesInOrder(finish_order, detector_tasks)
    /\ Reported => report.issues = IssuesInOrder(finish_order, detector_tasks)

(***************************************************************************)
(* C18 amended. The issue list is ordered by task creation, which is the   *)
(* registry order of the enabled detectors, under every interleaving of    *)
(* Phase A; each detector's issues keep the order in which it returned     *)
(* them.                                                                   *)
(***************************************************************************)
IssuesInCreationOrder ==
  PhaseADone =>
    /\ all_issues = IssuesInOrder(CreationOrder(detector_tasks), detector_tasks)
    /\ Reported =>
         report.issues = IssuesInOrder(CreationOrder(detector_tasks), detector_tasks)

IssuesInCreationOrderWitness ==
  /\ pc = "done"
  /\ finish_order = <<3, 2, 1>>
  /\ Len(detector_tasks[1].value) = 2
  /\ detector_tasks[2].value # <<>>
  /\ detector_tasks[3].value # <<>>
  /\ Len(report.issues) = 4
  /\ report.issues[1] = detector_tasks[1].value[1]
  /\ report.issues[2] = detector_tasks[1].value[2]
  /\ report.issues[1] # report.issues[2]

(***************************************************************************)
(* C19. Summary contents: by_severity has a key for exactly the severities *)
(* that occur in the issue list and maps each to the number of issues that *)
(* have it; by_type does the same for the types; critical_issues holds the *)
(* (title, type) of each critical issue and of no other, in the order of   *)
(* the issue list.                                                         *)
(***************************************************************************)
CriticalEntries(issues) ==
  LET critical == SelectSeq(issues, IsCritical)
  IN [i \in Indices(critical) |->
        [title |-> critical[i].title, type |-> critical[i].type]]

SummaryContents ==
  Reported =>
    LET issues == report.issues
        summary == report.summary
    IN /\ DOMAIN summary.by_severity =
            {s \in IssueSeverity : CountSeverity(issues, s) > 0}
       /\ \A s \in DOMAIN summary.by_severity :
            summary.by_severity[s] = CountSeverity(issues, s)
       /\ DOMAIN summary.by_type = {t \in IssueType : CountType(issues, t) > 0}
       /\ \A t \in DOMAIN summary.by_type :
            summary.by_type[t] = CountType(issues, t)
       /\ summary.critical_issues = CriticalEntries(issues)

SummaryContentsWitness ==
  /\ Reported
  /\ Len(report.issues) >= 4
  /\ Len(report.summary.critical_issues) = Len(report.issues)
  /\ report.summary.critical_issues[1].type = "accessibility"
  /\ report.summary.critical_issues[Len(report.issues)].type = "security"
  /\ report.summary.by_severity["critical"] = Len(report.issues)
  /\ report.summary.by_type["security"] = 1

(***************************************************************************)
(* The run in which every step that can be taken is eventually taken: the  *)
(* Provider, every launched unit and the Engine each terminate, and the    *)
(* event loop resumes analyze_website whenever what it awaits is ready.    *)
(***************************************************************************)
SpecFair == InitOrder /\ [][Next]_vars /\ WF_vars(Next)

RunEnded == pc \in {"done", "failed"}

OneOutcome ==
  /\ pc = "done" => Reported /\ raised = NoException
  /\ pc = "failed" => ~Reported /\ raised # NoException
  /\ ~RunEnded => ~Reported /\ raised = NoException

\* no Report without the end of every call the run awaits
ReportAwaitsAll ==
  Reported =>
    /\ scrape_calls # <<>> /\ ~ProviderFailed
    /\ Ended(detector_tasks)
    /\ analyzer_tasks # <<>> /\ Ended(analyzer_tasks)
    /\ engine_calls # <<>>
    /\ \A i \in Indices(engine_calls) : engine_calls[i].outcome = "returned"

(***************************************************************************)
(* C20. Run termination: when every unit terminates, analyze_website       *)
(* eventually ends; it ends with a Report and no error, or with an error   *)
(* and no Report, and the outcome never changes afterwards; a Report       *)
(* exists only once the Provider, every launched detector, every analyzer  *)
(* and the Engine have terminated.                                         *)
(***************************************************************************)
RunTerminates ==
  /\ <>RunEnded
  /\ []OneOutcome
  /\ []ReportAwaitsAll
  /\ [][RunEnded => UNCHANGED <<pc, report, raised>>]_vars

RunTerminatesWitness ==
  /\ pc = "done"
  /\ Reported
  /\ raised = NoException
  /\ Raised(detector_tasks) # {}
  /\ Raised(analyzer_tasks) # {}
  /\ Returned(detector_tasks) # {}

(***************************************************************************)
(* AccessibilityDetector.detect_issues on every snapshot with at most      *)
(* MaxLen raw records in its accessibility sub-bundle: each record has one *)
(* of five type tags and has its message or lacks it; also the snapshot    *)
(* without the sub-bundle and the one whose sub-bundle has no issues key.  *)
(***************************************************************************)
TypeTags ==
  {"missing_alt_text", "keyboard_accessibility", "color_contrast",
   "heading_structure", "aria_label"}

RawRecords ==
  {Observation(tag) : tag \in TypeTags}
  \cup {[type |-> tag, element |-> [tagName |-> "p", selector |-> "p"]] :
          tag \in TypeTags}

DetectSnapshots ==
  {[url |-> TestUrl, performance |-> [score |-> 85]],
   [url |-> TestUrl, accessibility |-> EmptyDict, performance |-> [score |-> 85]]}
  \cup {[url |-> TestUrl, accessibility |-> [issues |-> raw],
         performance |-> [score |-> 85]] : raw \in SeqsUpTo(RawRecords, MaxLen)}

\* only the AccessibilityDetector is enabled
AccessibilityOnly ==
  [k \in {Detectors[i].key : i \in 1..Len(Detectors)} |->
     IF k = "accessibility" THEN EmptyDict ELSE [enabled |-> FALSE]]

InitDetect ==
  /\ config = AccessibilityOnly
  /\ analyzers = Analyzers
  /\ finish_order = <<>>
  /\ options = EmptyDict
  /\ pc = "run_detectors"
  /\ scrape_calls = <<ScrapeCall(EmptyDict, "returned")>>
  /\ page_data \in DetectSnapshots
  /\ detector_tasks = <<>>
  /\ analyzer_tasks = <<>>
  /\ all_issues = <<>>
  /\ analysis_results = EmptyDict
  /\ engine_calls = <<>>
  /\ recommendations = <<>>
  /\ report = EmptyDict
  /\ raised = NoException
  /\ log = <<LogRecord("info", "Starting QA analysis for", TestUrl, "")>>

NextDetect ==
  \/ LaunchDetectors
  \/ \E k \in 1..Len(detector_tasks) : DetectorTerminates(k)

SpecDetect == InitDetect /\ [][NextDetect]_vars

(***************************************************************************)
(* C21. AccessibilityDetector.detect_issues returns one Issue per raw      *)
(* observation (type tag, element, message) of the accessibility           *)
(* sub-bundle, in observation order, each of type accessibility and of the *)
(* severity of its type tag: high for missing_alt_text, critical for       *)
(* keyboard_accessibility, medium for every other tag; it returns the      *)
(* empty list when the snapshot has no accessibility sub-bundle; the       *)
(* snapshot is the same after the call as before.                          *)
(***************************************************************************)
SeverityTable ==
  [missing_alt_text |-> "high", keyboard_accessibility |-> "critical",
   color_contrast |-> "medium", heading_structure |-> "medium"]

IsObservation(record) ==
  /\ "type" \in DOMAIN record
  /\ "element" \in DOMAIN record
  /\ "message" \in DOMAIN record

RawObservations(snapshot) ==
  IF "accessibility" \in DOMAIN snapshot
       /\ "issues" \in DOMAIN snapshot["accessibility"]
    THEN snapshot["accessibility"]["issues"]
    ELSE <<>>

AccessibilityEnded ==
  {k \in Indices(detector_tasks) :
     /\ detector_tasks[k].unit = "AccessibilityDetector"
     /\ detector_tasks[k].status # "running"}

DetectedPerObservation ==
  \A k \in AccessibilityEnded :
    LET task == detector_tasks[k]
        raw == RawObservations(task.arg)
    IN /\ task.arg = page_data
       /\ (\A i \in Indices(raw) : IsObservation(raw[i])) =>
            /\ task.status = "returned"
            /\ Len(task.value) = Len(raw)
            /\ \A i \in Indices(raw) :
                 /\ task.value[i].type = "accessibility"
                 /\ task.value[i].severity =
                      (IF raw[i].type \in DOMAIN SeverityTable
                         THEN SeverityTable[raw[i].type] ELSE "medium")

SnapshotKept ==
  /\ page_data' = page_data
  /\ \A k \in Indices(detector_tasks) : detector_tasks'[k].arg = detector_tasks[k].arg

DetectionStep == pc \in {"run_detectors", "gather_detectors"}

AccessibilityDetection ==
  []DetectedPerObservation /\ [][DetectionStep => SnapshotKept]_vars

AccessibilityDetectionWitness ==
  /\ AccessibilityEnded # {}
  /\ LET task == detector_tasks[1]
         raw == RawObservations(task.arg)
     IN /\ Len(raw) = 2
        /\ IsObservation(raw[1]) /\ IsObservation(raw[2])
        /\ raw[1].type = "keyboard_accessibility"
        /\ raw[2].type = "aria_label"
        /\ task.status = "returned"
        /\ task.value[1].severity = "critical"
        /\ task.value[2].severity = "medium"

====
